---- MODULE Spec2Model ----
(***************************************************************************)
(* Reputation / moderation state machine (Profile, Report, User) and the   *)
(* content-view ledger (ContentView) of the apartment-management backend.  *)
(*                                                                         *)
(* The database is modelled as tables of committed rows.  Requests run     *)
(* under ATOMIC_REQUESTS: one transaction per request, READ COMMITTED      *)
(* reads, row locks taken by UPDATE and held until commit or rollback.     *)
(***************************************************************************)
EXTENDS Integers, Sequences, FiniteSets, TLC

\* ------------------------------------------------------------------------
\* Bounds of the model
\* ------------------------------------------------------------------------
MaxReports == 6
MaxRequests == 3
MaxViewRequests == 2
MaxClock == 3

\* ------------------------------------------------------------------------
\* Program constants
\* ------------------------------------------------------------------------
FullReputation == 100
ReportPenalty == 20
WarnCount == 1
BanCount == 5
DeactivateCount == 5

\* user ids (0 stands for NULL), and the workers that serve requests and tasks
Users == {1, 2}
Workers == {1, 2}

\* title and description of a report, as submitted
ReportTexts ==
    { [title |-> "t1", description |-> "d1"],
      [title |-> "t2", description |-> "d2"] }

ReportRows ==
    {[reported_by |-> by, reported_user |-> u,
      title |-> x.title, description |-> x.description] :
        by \in Users, u \in Users, x \in ReportTexts}

MailKinds == {"warning", "deactivation"}

Mails ==
    {[kind |-> k, to |-> u, title |-> x.title, description |-> x.description] :
        k \in MailKinds, u \in Users, x \in ReportTexts}

VARIABLES
    users,      \* ids of the rows of the User table
    is_active,  \* User.is_active of each user
    profiles,   \* the Profile table: rows [user, report_count, reputation]
    reports,    \* the Report table: number of rows of each content
    outbox,     \* notifications handed to the mail transport, with multiplicity
    resp,       \* outcome of the last finished request or task
    proc,       \* what each worker is running, and the objects it holds
    tx,         \* the uncommitted writes of each worker's transaction
    started,    \* number of operations begun on the workers
    views,      \* the ContentView table
    next_pkid,  \* the next primary key of the ContentView table
    clock,      \* timezone.now()
    issues,     \* the Issue table: rows [pk, reported_by, assigned_to]
    posts,      \* primary keys of the Post table
    staff,      \* users with is_staff
    ratings,    \* the Rating table: number of rows of each content
    occupation, \* Profile.occupation of each user's profile
    upvotes,    \* Post.upvotes of each post
    upvoted_by, \* Post.upvoted_by of each post
    downvotes,  \* Post.downvotes of each post
    downvoted_by, \* Post.downvoted_by of each post
    issue_status, \* Issue.status of each issue
    resolved_on, \* Issue.resolved_on of each issue
    issue_outbox \* issue mails handed to the mail transport, with multiplicity

modVars == <<users, is_active, profiles, reports, outbox>>
workVars == <<proc, tx, started>>
viewVars == <<views, next_pkid, clock>>
ratingVars == <<ratings, occupation>>
voteVars == <<upvotes, upvoted_by, downvotes, downvoted_by>>
issueVars == <<issue_status, resolved_on, issue_outbox>>
contentVars == <<issues, posts, staff, ratingVars, voteVars, issueVars>>

vars == <<users, is_active, profiles, reports, outbox, resp, proc, tx, started,
          views, next_pkid, clock, issues, posts, staff, ratings, occupation,
          upvotes, upvoted_by, downvotes, downvoted_by, issue_status,
          resolved_on, issue_outbox>>

\* Profile.Occupation: the tenant and two of the service providers
TENANT == "tenant"
PLUMBER == "plumber"
MASON == "mason"
Occupations == {TENANT, PLUMBER, MASON}

\* Rating.RatingChoices: the lowest and the highest rating
RatingChoices == {1, 5}

RatingRows ==
    {[rating_user |-> a, rated_user |-> b, rating |-> v] :
        a \in Users, b \in Users, v \in RatingChoices}

PostIds == {1}
IssueIds == {1}

\* Issue.IssueStatus
REPORTED == "reported"
RESOLVED == "resolved"
IN_PROGRESS == "in_progress"
IssueStatus == {REPORTED, RESOLVED, IN_PROGRESS}

NullDate == 0

IssueMailKinds == {"resolution", "assignment"}

IssueMails ==
    {[kind |-> k, to |-> u, issue |-> pk] :
        k \in IssueMailKinds, u \in Users, pk \in IssueIds}

\* the columns of the ratings, posts and issues apps as their models'
\* defaults leave them: no rating, tenants only, posts without votes, issues
\* that are reported and not resolved
DefaultContent ==
    /\ ratings = [r \in RatingRows |-> 0]
    /\ occupation = [u \in Users |-> TENANT]
    /\ upvotes = [pk \in PostIds |-> 0]
    /\ upvoted_by = [pk \in PostIds |-> {}]
    /\ downvotes = [pk \in PostIds |-> 0]
    /\ downvoted_by = [pk \in PostIds |-> {}]
    /\ issue_status = [pk \in IssueIds |-> REPORTED]
    /\ resolved_on = [pk \in IssueIds |-> NullDate]
    /\ issue_outbox = [m \in IssueMails |-> 0]


\* ------------------------------------------------------------------------
\* Profile model
\* ------------------------------------------------------------------------
Max(a, b) == IF a >= b THEN a ELSE b

update_reputation_unclamped(report_count) ==
    FullReputation - report_count * ReportPenalty

\* Profile.update_reputation
update_reputation(report_count) ==
    Max(0, FullReputation - report_count * ReportPenalty)

is_banned_above(p) == p.report_count > BanCount

\* Profile.is_banned
is_banned(p) == p.report_count >= BanCount

ProfileSave_as_read(p) == p

\* Profile.save: recompute the reputation, then write the row
ProfileSave(p) ==
    [p EXCEPT !.reputation = update_reputation(p.report_count)]

\* Profile(user=u) with the field defaults
NewProfile(u) == [user |-> u, report_count |-> 0, reputation |-> FullReputation]

HasProfile(table, u) == \E p \in table : p.user = u

ProfileOf(table, u) == CHOOSE p \in table : p.user = u

\* UPDATE of the row of p.user (INSERT when the user has none)
WriteProfile(table, p) == {q \in table : q.user # p.user} \cup {p}

\* ------------------------------------------------------------------------
\* Report table and notifications
\* ------------------------------------------------------------------------
ReportRow(by, target, text) ==
    [reported_by |-> by, reported_user |-> target,
     title |-> text.title, description |-> text.description]

RECURSIVE SumOver(_, _)
SumOver(f, S) ==
    IF S = {} THEN 0
    ELSE LET x == CHOOSE y \in S : TRUE IN f[x] + SumOver(f, S \ {x})

ReportsTotal == SumOver(reports, ReportRows)

ReportsAgainst(table, u) ==
    SumOver(table, {r \in ReportRows : r.reported_user = u})

\* send_warning_email(user, title, description)
send_warning_email(user, title, description) ==
    [kind |-> "warning", to |-> user, title |-> title, description |-> description]

\* send_deactivation_email(user, title, description)
send_deactivation_email(user, title, description) ==
    [kind |-> "deactivation", to |-> user, title |-> title,
     description |-> description]

Dispatch(box, mail) == [box EXCEPT ![mail] = @ + 1]

MailsOf(box, kind, u) ==
    SumOver(box, {m \in Mails : m.kind = kind /\ m.to = u})

\* ------------------------------------------------------------------------
\* Report post_save handler
\* ------------------------------------------------------------------------
IncrementReportCount_twice(report_count) == report_count + 2

\* reported_user_profile.report_count += 1
IncrementReportCount(report_count) == report_count + 1

ShouldWarn_second(report_count) == report_count = WarnCount + 1

\* if reported_user_profile.report_count == 1
ShouldWarn(report_count) == report_count = WarnCount

ShouldDeactivate_late(report_count) ==
    ~ShouldWarn(report_count) /\ report_count > DeactivateCount

\* elif reported_user_profile.report_count >= 5
ShouldDeactivate(report_count) ==
    ~ShouldWarn(report_count) /\ report_count >= DeactivateCount

NullUser == 0
NullIp == "null"
NoEntity == [content_type |-> "", object_id |-> 0]

Response(op, status, failed) ==
    [op |-> op, status |-> status, mail_failed |-> failed,
     entity |-> NoEntity, user |-> NullUser, ip |-> NullIp]

\* the response to a report-creation request naming target
ReportResponse(status, failed, target) ==
    [Response("report", status, failed) EXCEPT !.user = target]

NoText == [title |-> "", description |-> ""]

NoProfile == [user |-> 0, report_count |-> 0, reputation |-> 0]

Idle ==
    [kind |-> "idle", pc |-> "idle", by |-> 0, target |-> 0, text |-> NoText,
     profile |-> NoProfile, todo |-> {}, entity |-> NoEntity, ip |-> NullIp]

NoWrites == [profiles |-> {}, deactivated |-> {}, reports |-> {}]

IsSelfReport_never(by, name) == FALSE

\* ReportCreateAPIView.perform_create: the requester's username is the
\* reported username
IsSelfReport(by, name) == name = by

\* an empty database, idle workers
Init ==
    /\ proc = [w \in Workers |-> Idle]
    /\ tx = [w \in Workers |-> NoWrites]
    /\ started = 0
    /\ users = {}
    /\ is_active = [u \in Users |-> FALSE]
    /\ profiles = {}
    /\ reports = [r \in ReportRows |-> 0]
    /\ outbox = [m \in Mails |-> 0]
    /\ resp = Response("none", 0, FALSE)
    /\ views = {}
    /\ next_pkid = 1
    /\ clock = 0
    /\ issues = {}
    /\ posts = {}
    /\ staff = {}
    /\ DefaultContent

create_user_profile_always(table, u, created) ==
    table \cup {ProfileSave(NewProfile(u))}

\* the User post_save handler: Profile.objects.create(user=instance) for a
\* user that was inserted, nothing for a user that was updated
create_user_profile(table, u, created) ==
    IF created THEN table \cup {ProfileSave(NewProfile(u))} ELSE table

\* UserManager._create_user, then the User post_save handler
\* create_user_profile, which creates the profile of the new user
CreateUser(u) ==
    /\ u \notin users
    /\ users' = users \cup {u}
    /\ is_active' = [is_active EXCEPT ![u] = TRUE]
    /\ profiles' = create_user_profile(profiles, u, TRUE)
    /\ resp' = Response("user", 201, FALSE)
    /\ UNCHANGED <<reports, outbox, workVars, viewVars, contentVars>>

\* One whole report-creation request, run alone: ReportCreateAPIView,
\* ReportSerializer and the Report post_save handler.  mailOK is the outcome
\* of email.send(); when it raises, the exception leaves the handler and the
\* view, and the request transaction is rolled back.
CreateReport(by, name, text, mailOK) ==
    /\ by \in users /\ is_active[by]
    /\ ReportsTotal < MaxReports
    /\ IF name \notin users \/ IsSelfReport(by, name)
       THEN /\ resp' = ReportResponse(400, FALSE, name)
            /\ UNCHANGED modVars
       ELSE LET p == ProfileOf(profiles, name)
                rc == IncrementReportCount(p.report_count)
                saved == ProfileSave([p EXCEPT !.report_count = rc])
                mail == IF ShouldWarn(rc)
                        THEN send_warning_email(name, text.title, text.description)
                        ELSE send_deactivation_email(name, text.title,
                                                     text.description)
                sends == ShouldWarn(rc) \/ ShouldDeactivate(rc)
            IN  IF sends /\ ~mailOK
                THEN /\ resp' = ReportResponse(500, TRUE, name)
                     /\ UNCHANGED modVars
                ELSE /\ reports' = [reports EXCEPT
                                      ![ReportRow(by, name, text)] = @ + 1]
                     /\ profiles' = IF ShouldDeactivate(rc)
                                    THEN create_user_profile(
                                           WriteProfile(profiles, saved),
                                           name, FALSE)
                                    ELSE WriteProfile(profiles, saved)
                     /\ is_active' = IF ShouldDeactivate(rc)
                                     THEN [is_active EXCEPT ![name] = FALSE]
                                     ELSE is_active
                     /\ outbox' = IF sends THEN Dispatch(outbox, mail) ELSE outbox
                     /\ resp' = ReportResponse(201, FALSE, name)
                     /\ UNCHANGED users
    /\ UNCHANGED <<workVars, viewVars, contentVars>>

\* update_all_reputations, run alone
RECURSIVE SaveAll(_, _)
SaveAll(table, todo) ==
    IF todo = {} THEN table
    ELSE LET p == CHOOSE q \in todo : TRUE
         IN  SaveAll(WriteProfile(table, ProfileSave(p)), todo \ {p})

Sweep ==
    /\ profiles' = SaveAll(profiles, profiles)
    /\ resp' = Response("sweep", 0, FALSE)
    /\ UNCHANGED <<users, is_active, reports, outbox, workVars, viewVars,
                   contentVars>>

\* ProfileUpdateAPIView: get_object (get_or_create) and serializer.save()
ProfileEdit(u) ==
    /\ u \in users /\ is_active[u]
    /\ LET p == IF HasProfile(profiles, u) THEN ProfileOf(profiles, u)
                ELSE ProfileSave(NewProfile(u))
       IN  profiles' = WriteProfile(profiles, ProfileSave(p))
    /\ resp' = Response("edit", 200, FALSE)
    /\ UNCHANGED <<users, is_active, reports, outbox, workVars, viewVars,
                   contentVars>>

\* AvatarUploadAPIView.upload_avatar: profile.avatar.save() saves the profile
AvatarUpload(u) ==
    /\ u \in users /\ is_active[u]
    /\ IF HasProfile(profiles, u)
       THEN /\ profiles' = WriteProfile(profiles,
                                        ProfileSave(ProfileOf(profiles, u)))
            /\ resp' = Response("avatar", 200, FALSE)
       ELSE /\ resp' = Response("avatar", 404, FALSE)
            /\ UNCHANGED profiles
    /\ UNCHANGED <<users, is_active, reports, outbox, workVars, viewVars,
                   contentVars>>

Next ==
    \/ \E u \in Users : CreateUser(u)
    \/ \E by \in Users, name \in Users, text \in ReportTexts, mailOK \in BOOLEAN :
          CreateReport(by, name, text, mailOK)
    \/ Sweep
    \/ \E u \in Users : ProfileEdit(u)
    \/ \E u \in Users : AvatarUpload(u)

Spec == Init /\ [][Next]_vars

\* ------------------------------------------------------------------------
\* The same operations, one database statement at a time, on several workers
\* ------------------------------------------------------------------------
\* report_count of a profile when the workers start
StartCounts == {0, BanCount - 1}

\* the rows that StartCount reports against each user leave behind: the
\* reports, the profile, and the warning sent for the first of them
FirstText == [title |-> "t1", description |-> "d1"]

OtherUser(u) == CHOOSE v \in Users : v # u

StartReports(c) ==
    [r \in ReportRows |->
        IF r = ReportRow(OtherUser(r.reported_user), r.reported_user, FirstText)
        THEN c[r.reported_user] ELSE 0]

StartOutbox(c) ==
    [m \in Mails |->
        IF /\ m = send_warning_email(m.to, FirstText.title, FirstText.description)
           /\ c[m.to] >= WarnCount
        THEN 1 ELSE 0]

\* a database in which every user exists and has been reported a number of
\* times, one request at a time
InitConc ==
    /\ proc = [w \in Workers |-> Idle]
    /\ tx = [w \in Workers |-> NoWrites]
    /\ started = 0
    /\ users = Users
    /\ is_active = [u \in Users |-> TRUE]
    /\ \E c \in [Users -> StartCounts] :
          /\ profiles = {ProfileSave([NewProfile(u) EXCEPT !.report_count = c[u]]) :
                           u \in Users}
          /\ reports = StartReports(c)
          /\ outbox = StartOutbox(c)
    /\ resp = Response("none", 0, FALSE)
    /\ views = {}
    /\ next_pkid = 1
    /\ clock = 0
    /\ issues = {}
    /\ posts = {}
    /\ staff = {}
    /\ DefaultContent

\* the row lock of u's profile is held by a transaction other than w's
ProfileLockedByOther(w, u) ==
    \E v \in Workers \ {w} : \E p \in tx[v].profiles : p.user = u

\* the row lock of user u is held by a transaction other than w's
UserLockedByOther(w, u) ==
    \E v \in Workers \ {w} : u \in tx[v].deactivated

\* READ COMMITTED: a statement of w sees the committed rows and w's own writes
VisibleProfiles(w) ==
    {q \in profiles : ~\E p \in tx[w].profiles : p.user = q.user}
        \cup tx[w].profiles

\* COMMIT of w's transaction
CommitProfiles(w) ==
    {q \in profiles : ~\E p \in tx[w].profiles : p.user = q.user}
        \cup tx[w].profiles

CommitActive_lost(w) == is_active

CommitActive(w) ==
    [u \in Users |-> IF u \in tx[w].deactivated THEN FALSE ELSE is_active[u]]

CommitReports(w) ==
    [r \in ReportRows |-> IF r \in tx[w].reports THEN reports[r] + 1
                          ELSE reports[r]]

\* ReportCreateAPIView.perform_create and ReportSerializer.create: the
\* request is validated, the reported user is fetched and the Report row is
\* inserted; the post_save handler runs next
ReportBegin(w, by, name, text) ==
    /\ proc[w].kind = "idle"
    /\ started < MaxRequests
    /\ by \in users /\ is_active[by]
    /\ started' = started + 1
    /\ IF name \notin users \/ IsSelfReport(by, name)
       THEN /\ resp' = ReportResponse(400, FALSE, name)
            /\ UNCHANGED <<proc, tx>>
       ELSE /\ proc' = [proc EXCEPT ![w] =
                          [Idle EXCEPT !.kind = "report", !.pc = "load",
                                       !.by = by, !.target = name,
                                       !.text = text]]
            /\ tx' = [tx EXCEPT ![w].reports = {ReportRow(by, name, text)}]
            /\ UNCHANGED resp
    /\ UNCHANGED <<modVars, viewVars, contentVars>>

\* reported_user_profile = instance.reported_user.profile
ReportLoad(w) ==
    /\ proc[w].kind = "report" /\ proc[w].pc = "load"
    /\ proc' = [proc EXCEPT
                  ![w].profile = ProfileOf(VisibleProfiles(w), proc[w].target),
                  ![w].pc = "save"]
    /\ UNCHANGED <<modVars, resp, tx, started, viewVars, contentVars>>

\* reported_user_profile.report_count += 1; reported_user_profile.save()
ReportSave(w) ==
    /\ proc[w].kind = "report" /\ proc[w].pc = "save"
    /\ ~ProfileLockedByOther(w, proc[w].target)
    /\ LET p == proc[w].profile
           saved == ProfileSave(
                      [p EXCEPT !.report_count = IncrementReportCount(@)])
       IN  /\ proc' = [proc EXCEPT ![w].profile = saved, ![w].pc = "notify"]
           /\ tx' = [tx EXCEPT ![w].profiles = WriteProfile(@, saved)]
    /\ UNCHANGED <<modVars, resp, started, viewVars, contentVars>>

\* the branch on the new report_count: the warning, or the deactivation
\* (user save, then the mail), or nothing.  A mail that cannot be sent raises
\* out of the handler and of the view: the transaction is rolled back.
ReportNotify(w, mailOK) ==
    /\ proc[w].kind = "report" /\ proc[w].pc = "notify"
    /\ LET rc == proc[w].profile.report_count
           t == proc[w].target
           x == proc[w].text
           mail == IF ShouldWarn(rc)
                   THEN send_warning_email(t, x.title, x.description)
                   ELSE send_deactivation_email(t, x.title, x.description)
           sends == ShouldWarn(rc) \/ ShouldDeactivate(rc)
       IN  /\ ShouldDeactivate(rc) => ~UserLockedByOther(w, t)
           /\ IF sends /\ ~mailOK
              THEN /\ proc' = [proc EXCEPT ![w] = Idle]
                   /\ tx' = [tx EXCEPT ![w] = NoWrites]
                   /\ resp' = ReportResponse(500, TRUE, t)
                   /\ UNCHANGED outbox
              ELSE /\ proc' = [proc EXCEPT ![w].pc = "commit"]
                   /\ tx' = IF ShouldDeactivate(rc)
                            THEN [tx EXCEPT ![w].deactivated = @ \cup {t}]
                            ELSE tx
                   /\ outbox' = IF sends THEN Dispatch(outbox, mail) ELSE outbox
                   /\ UNCHANGED resp
    /\ UNCHANGED <<users, is_active, profiles, reports, started, viewVars,
                   contentVars>>

\* the view returns and the request transaction commits
ReportCommit(w) ==
    /\ proc[w].kind = "report" /\ proc[w].pc = "commit"
    /\ profiles' = CommitProfiles(w)
    /\ is_active' = CommitActive(w)
    /\ reports' = CommitReports(w)
    /\ proc' = [proc EXCEPT ![w] = Idle]
    /\ tx' = [tx EXCEPT ![w] = NoWrites]
    /\ resp' = ReportResponse(201, FALSE, proc[w].target)
    /\ UNCHANGED <<users, outbox, started, viewVars, contentVars>>

\* update_all_reputations on a task worker, outside any transaction:
\* Profile.objects.all() is read once
SweepBegin(w) ==
    /\ proc[w].kind = "idle"
    /\ started < MaxRequests
    /\ profiles # {}
    /\ started' = started + 1
    /\ proc' = [proc EXCEPT ![w] =
                  [Idle EXCEPT !.kind = "sweep", !.pc = "save",
                               !.todo = profiles]]
    /\ UNCHANGED <<modVars, resp, tx, viewVars, contentVars>>

\* profile.update_reputation(); profile.save() for the next profile read
SweepSave(w) ==
    /\ proc[w].kind = "sweep" /\ proc[w].pc = "save"
    /\ \E p \in proc[w].todo :
          /\ ~ProfileLockedByOther(w, p.user)
          /\ profiles' = WriteProfile(profiles, ProfileSave(p))
          /\ IF proc[w].todo = {p}
             THEN /\ proc' = [proc EXCEPT ![w] = Idle]
                  /\ resp' = Response("sweep", 0, FALSE)
             ELSE /\ proc' = [proc EXCEPT ![w].todo = @ \ {p}]
                  /\ UNCHANGED resp
    /\ UNCHANGED <<users, is_active, reports, outbox, tx, started, viewVars,
                   contentVars>>

\* ProfileUpdateAPIView.get_object, or request.user.profile of the avatar
\* upload: the profile of the requester is read
EditBegin(w, u, kind) ==
    /\ proc[w].kind = "idle"
    /\ started < MaxRequests
    /\ u \in users /\ is_active[u]
    /\ HasProfile(profiles, u)
    /\ started' = started + 1
    /\ proc' = [proc EXCEPT ![w] =
                  [Idle EXCEPT !.kind = kind, !.pc = "save", !.by = u,
                               !.profile = ProfileOf(profiles, u)]]
    /\ UNCHANGED <<modVars, resp, tx, viewVars, contentVars>>

\* serializer.save(), or profile.avatar.save(): Profile.save of the object
\* read at the start of the request
EditSave(w) ==
    /\ proc[w].kind \in {"edit", "avatar"} /\ proc[w].pc = "save"
    /\ ~ProfileLockedByOther(w, proc[w].by)
    /\ tx' = [tx EXCEPT ![w].profiles =
                WriteProfile(@, ProfileSave(proc[w].profile))]
    /\ proc' = [proc EXCEPT ![w].pc = "commit"]
    /\ UNCHANGED <<modVars, resp, started, viewVars, contentVars>>

EditCommit(w) ==
    /\ proc[w].kind \in {"edit", "avatar"} /\ proc[w].pc = "commit"
    /\ profiles' = CommitProfiles(w)
    /\ resp' = Response(proc[w].kind, 200, FALSE)
    /\ proc' = [proc EXCEPT ![w] = Idle]
    /\ tx' = [tx EXCEPT ![w] = NoWrites]
    /\ UNCHANGED <<users, is_active, reports, outbox, started, viewVars,
                   contentVars>>

NextConc ==
    \/ \E w \in Workers, by \in Users, name \in Users, text \in ReportTexts :
          ReportBegin(w, by, name, text)
    \/ \E w \in Workers : ReportLoad(w)
    \/ \E w \in Workers : ReportSave(w)
    \/ \E w \in Workers, mailOK \in BOOLEAN : ReportNotify(w, mailOK)
    \/ \E w \in Workers : ReportCommit(w)
    \/ \E w \in Workers : SweepBegin(w)
    \/ \E w \in Workers : SweepSave(w)
    \/ \E w \in Workers, u \in Users, kind \in {"edit", "avatar"} :
          EditBegin(w, u, kind)
    \/ \E w \in Workers : EditSave(w)
    \/ \E w \in Workers : EditCommit(w)

SpecConc == InitConc /\ [][NextConc]_vars

\* report-creation requests only
NextReports ==
    \/ \E w \in Workers, by \in Users, name \in Users, text \in ReportTexts :
          ReportBegin(w, by, name, text)
    \/ \E w \in Workers : ReportLoad(w)
    \/ \E w \in Workers : ReportSave(w)
    \/ \E w \in Workers, mailOK \in BOOLEAN : ReportNotify(w, mailOK)
    \/ \E w \in Workers : ReportCommit(w)

SpecReports == InitConc /\ [][NextReports]_vars

\* ------------------------------------------------------------------------
\* Content-view ledger
\* ------------------------------------------------------------------------
Ips == {"ip1", "ip2"}

Entities == [content_type : {"issue", "post"}, object_id : {1}]

Entity(type, pk) == [content_type |-> type, object_id |-> pk]

ViewResponse(op, status, e, u, ip) ==
    [op |-> op, status |-> status, mail_failed |-> FALSE,
     entity |-> e, user |-> u, ip |-> ip]

\* ContentView(content_type, object_id, user, viewer_ip); last_viewed is
\* auto_now: set to the time of every save
ViewRow(pk, e, u, ip, now) ==
    [pkid |-> pk, content_type |-> e.content_type, object_id |-> e.object_id,
     user |-> u, viewer_ip |-> ip, last_viewed |-> now]

SameTuple(r, q) ==
    /\ r.content_type = q.content_type
    /\ r.object_id = q.object_id
    /\ r.user = q.user
    /\ r.viewer_ip = q.viewer_ip

\* unique_together: a NULL in any column of the key makes the row distinct
\* from every other row, so only keys without NULL are checked
UniqueViolation(table, row) ==
    /\ row.user # NullUser
    /\ row.viewer_ip # NullIp
    /\ \E q \in table : SameTuple(q, row)

RecordViewLookup_null_unequal(table, e, u, ip) ==
    {r \in table : /\ r.content_type = e.content_type
                   /\ r.object_id = e.object_id
                   /\ r.user = u
                   /\ u # NullUser}

\* the lookup of ContentView.record_view: content_type, object_id, user
RecordViewLookup(table, e, u, ip) ==
    {r \in table : /\ r.content_type = e.content_type
                   /\ r.object_id = e.object_id
                   /\ r.user = u}

\* the lookup of the detail endpoints: content_type, object_id, user, viewer_ip
DetailLookup(table, e, u, ip) ==
    {r \in table : /\ r.content_type = e.content_type
                   /\ r.object_id = e.object_id
                   /\ r.user = u
                   /\ r.viewer_ip = ip}

Lookup(op, table, e, u, ip) ==
    IF op = "record_view" THEN RecordViewLookup(table, e, u, ip)
    ELSE DetailLookup(table, e, u, ip)

\* QuerySet.get on the rows that match
Get(matches) ==
    IF matches = {} THEN "DoesNotExist"
    ELSE IF Cardinality(matches) > 1 THEN "MultipleObjectsReturned"
    ELSE "found"

\* view.save() of the row found: the UPDATE sets last_viewed to now
Touch(table, matches, now) ==
    {IF r \in matches THEN [r EXCEPT !.last_viewed = now] ELSE r : r \in table}

\* the second half of get_or_create, after get raised DoesNotExist: create,
\* and on IntegrityError get again (matches are the rows the lookup finds now)
Create(table, row, matches) ==
    IF UniqueViolation(table, row)
    THEN [table |-> table,
          outcome |-> IF Get(matches) = "DoesNotExist" THEN "IntegrityError"
                      ELSE Get(matches)]
    ELSE [table |-> table \cup {row}, outcome |-> "created"]

\* what is left of the outcome of get_or_create when the caller returns:
\* record_view saves the row found and swallows IntegrityError, the detail
\* endpoints do neither
AfterGetOrCreate(op, table, outcome, matches, now) ==
    IF op = "record_view" /\ outcome = "found" THEN Touch(table, matches, now)
    ELSE table

Raises(op, outcome) ==
    \/ outcome = "MultipleObjectsReturned"
    \/ outcome = "IntegrityError" /\ op # "record_view"

ViewStatus(op, outcome) == IF Raises(op, outcome) THEN 500 ELSE 200

\* get_or_create and what its caller does with the result, run alone
RecordedTable(op, table, pk, e, u, ip, now) ==
    LET matches == Lookup(op, table, e, u, ip)
        got == Get(matches)
        made == Create(table, ViewRow(pk, e, u, ip, now), matches)
        outcome == IF got = "DoesNotExist" THEN made.outcome ELSE got
        after == IF got = "DoesNotExist" THEN made.table ELSE table
    IN  [table |-> AfterGetOrCreate(op, after, outcome, matches, now),
         outcome |-> outcome]

\* count_views / get_view_count of the serializers
count_views(table, e) ==
    Cardinality({r \in table : /\ r.content_type = e.content_type
                               /\ r.object_id = e.object_id})

EntityExists(e) ==
    IF e.content_type = "issue" THEN \E i \in issues : i.pk = e.object_id
    ELSE e.object_id \in posts

MayViewIssue_anyone(u, pk) == TRUE

\* IssueDetailAPIView.get_object: the reporter, staff and the assignee
MayViewIssue(u, pk) ==
    \E i \in issues :
        /\ i.pk = pk
        /\ (u = i.reported_by \/ u \in staff \/ u = i.assigned_to)

\* a database with the users, one issue and one post
InitViews ==
    /\ proc = [w \in Workers |-> Idle]
    /\ tx = [w \in Workers |-> NoWrites]
    /\ started = 0
    /\ users = Users
    /\ is_active = [u \in Users |-> TRUE]
    /\ profiles = {ProfileSave(NewProfile(u)) : u \in Users}
    /\ reports = [r \in ReportRows |-> 0]
    /\ outbox = [m \in Mails |-> 0]
    /\ resp = Response("none", 0, FALSE)
    /\ views = {}
    /\ next_pkid = 1
    /\ clock = 0
    /\ \E a \in {NullUser, 2} :
          /\ issues = {[pk |-> 1, reported_by |-> 1, assigned_to |-> a]}
          /\ staff \in IF a = NullUser THEN {{}, {2}} ELSE {{}}
    /\ posts = {1}
    /\ DefaultContent

RecordStep(op, e, u, ip) ==
    LET now == clock + 1
        r == RecordedTable(op, views, next_pkid, e, u, ip, now)
    IN  /\ clock' = now
        /\ views' = r.table
        /\ next_pkid' = IF r.outcome = "created" THEN next_pkid + 1
                        ELSE next_pkid
        /\ resp' = ViewResponse(op, ViewStatus(op, r.outcome), e, u, ip)

\* ContentView.record_view(content_object, user, viewer_ip), run alone
RecordView(e, u, ip) ==
    /\ clock < MaxClock
    /\ EntityExists(e)
    /\ u \in users \cup {NullUser}
    /\ RecordStep("record_view", e, u, ip)
    /\ UNCHANGED <<modVars, workVars, contentVars>>

\* IssueDetailAPIView.get_object and record_issue_view, run alone
IssueDetail(u, pk, ip) ==
    /\ clock < MaxClock
    /\ u \in users /\ is_active[u]
    /\ IF ~EntityExists(Entity("issue", pk))
       THEN /\ resp' = ViewResponse("issue_detail", 404, Entity("issue", pk), u, ip)
            /\ UNCHANGED viewVars
       ELSE IF ~MayViewIssue(u, pk)
       THEN /\ resp' = ViewResponse("issue_detail", 403, Entity("issue", pk), u, ip)
            /\ UNCHANGED viewVars
       ELSE RecordStep("issue_detail", Entity("issue", pk), u, ip)
    /\ UNCHANGED <<modVars, workVars, contentVars>>

\* PostDetailAPIView.get_object and record_post_view, run alone
PostDetail(u, pk, ip) ==
    /\ clock < MaxClock
    /\ u \in users /\ is_active[u]
    /\ IF ~EntityExists(Entity("post", pk))
       THEN /\ resp' = ViewResponse("post_detail", 404, Entity("post", pk), u, ip)
            /\ UNCHANGED viewVars
       ELSE RecordStep("post_detail", Entity("post", pk), u, ip)
    /\ UNCHANGED <<modVars, workVars, contentVars>>

NextViews ==
    \/ \E e \in Entities, u \in Users \cup {NullUser}, ip \in Ips \cup {NullIp} :
          RecordView(e, u, ip)
    \/ \E u \in Users, pk \in {1}, ip \in Ips : IssueDetail(u, pk, ip)
    \/ \E u \in Users, pk \in {1}, ip \in Ips : PostDetail(u, pk, ip)

SpecViews == InitViews /\ [][NextViews]_vars

\* ------------------------------------------------------------------------
\* View recording, one database statement at a time, on several workers
\* ------------------------------------------------------------------------
ViewOps == {"record_view", "issue_detail", "post_detail"}

\* the caller has the entity and the viewer; get_or_create has not run yet
ViewBegin(w, op, e, u, ip) ==
    /\ proc[w].kind = "idle"
    /\ started < MaxViewRequests
    /\ EntityExists(e)
    /\ \/ op = "record_view" /\ u \in users \cup {NullUser}
       \/ /\ op = "issue_detail" /\ e.content_type = "issue"
          /\ u \in users /\ is_active[u] /\ ip # NullIp
          /\ MayViewIssue(u, e.object_id)
       \/ /\ op = "post_detail" /\ e.content_type = "post"
          /\ u \in users /\ is_active[u] /\ ip # NullIp
    /\ started' = started + 1
    /\ proc' = [proc EXCEPT ![w] =
                  [Idle EXCEPT !.kind = op, !.pc = "get", !.by = u,
                               !.entity = e, !.ip = ip]]
    /\ UNCHANGED <<modVars, resp, tx, viewVars, contentVars>>

\* the get of get_or_create; a row found is saved by record_view
ViewGet(w) ==
    /\ proc[w].kind \in ViewOps /\ proc[w].pc = "get"
    /\ LET op == proc[w].kind
           matches == Lookup(op, views, proc[w].entity, proc[w].by, proc[w].ip)
           got == Get(matches)
       IN  IF got = "DoesNotExist"
           THEN /\ proc' = [proc EXCEPT ![w].pc = "create"]
                /\ UNCHANGED <<resp, viewVars>>
           ELSE /\ clock' = clock + 1
                /\ views' = AfterGetOrCreate(op, views, got, matches, clock + 1)
                /\ resp' = ViewResponse(op, ViewStatus(op, got), proc[w].entity,
                                        proc[w].by, proc[w].ip)
                /\ proc' = [proc EXCEPT ![w] = Idle]
                /\ UNCHANGED next_pkid
    /\ UNCHANGED <<modVars, tx, started, contentVars>>

\* the create of get_or_create, with the get that follows an IntegrityError
ViewCreate(w) ==
    /\ proc[w].kind \in ViewOps /\ proc[w].pc = "create"
    /\ LET op == proc[w].kind
           now == clock + 1
           matches == Lookup(op, views, proc[w].entity, proc[w].by, proc[w].ip)
           made == Create(views,
                          ViewRow(next_pkid, proc[w].entity, proc[w].by,
                                  proc[w].ip, now),
                          matches)
       IN  /\ clock' = now
           /\ views' = AfterGetOrCreate(op, made.table, made.outcome, matches, now)
           /\ next_pkid' = IF made.outcome = "created" THEN next_pkid + 1
                           ELSE next_pkid
           /\ resp' = ViewResponse(op, ViewStatus(op, made.outcome),
                                   proc[w].entity, proc[w].by, proc[w].ip)
           /\ proc' = [proc EXCEPT ![w] = Idle]
    /\ UNCHANGED <<modVars, tx, started, contentVars>>

NextViewsConc ==
    \/ \E w \in Workers, op \in ViewOps, e \in Entities,
          u \in Users \cup {NullUser}, ip \in Ips \cup {NullIp} :
          ViewBegin(w, op, e, u, ip)
    \/ \E w \in Workers : ViewGet(w)
    \/ \E w \in Workers : ViewCreate(w)

SpecViewsConc == InitViews /\ [][NextViewsConc]_vars

\* ------------------------------------------------------------------------
\* The periodic sweep over stored rows whose reputation has drifted
\* ------------------------------------------------------------------------
\* the values a stored reputation takes
Reputations == {update_reputation(c) : c \in 0..MaxReports}

\* the Profile rows a user can have in the table: any report_count with any
\* stored reputation (a row written without Profile.save, such as a queryset
\* update or the column default on rows that existed before the column)
StoredProfiles(u) ==
    {[user |-> u, report_count |-> c, reputation |-> r] :
        c \in 0..MaxReports, r \in Reputations}

InitSweep ==
    /\ proc = [w \in Workers |-> Idle]
    /\ tx = [w \in Workers |-> NoWrites]
    /\ started = 0
    /\ users = Users
    /\ is_active \in [Users -> BOOLEAN]
    /\ \E f \in [Users -> UNION {StoredProfiles(u) : u \in Users}] :
          /\ \A u \in Users : f[u].user = u
          /\ profiles = {f[u] : u \in Users}
    /\ reports = [r \in ReportRows |-> 0]
    /\ outbox = [m \in Mails |-> 0]
    /\ resp = Response("none", 0, FALSE)
    /\ views = {}
    /\ next_pkid = 1
    /\ clock = 0
    /\ issues = {}
    /\ posts = {}
    /\ staff = {}
    /\ DefaultContent

NextSweep == Sweep

SpecSweep == InitSweep /\ [][NextSweep]_vars

\* ------------------------------------------------------------------------
\* Saving a Report that exists
\* ------------------------------------------------------------------------
RunsIngestion_always(created) == TRUE

\* if created: the handler does its work for a row that was inserted only
RunsIngestion(created) == created

\* what the Report post_save handler leaves behind for a report against name
\* when its mail is sent
Ingested(name, text) ==
    LET p == ProfileOf(profiles, name)
        rc == IncrementReportCount(p.report_count)
        saved == ProfileSave([p EXCEPT !.report_count = rc])
        mail == IF ShouldWarn(rc)
                THEN send_warning_email(name, text.title, text.description)
                ELSE send_deactivation_email(name, text.title, text.description)
    IN  [profiles |-> WriteProfile(profiles, saved),
         is_active |-> IF ShouldDeactivate(rc)
                       THEN [is_active EXCEPT ![name] = FALSE]
                       ELSE is_active,
         outbox |-> IF ShouldWarn(rc) \/ ShouldDeactivate(rc)
                    THEN Dispatch(outbox, mail) ELSE outbox]

\* Report.save() of a row of the table (the change form of ReportAdmin):
\* post_save is sent with created = False
ResaveReport(by, name, text) ==
    /\ reports[ReportRow(by, name, text)] > 0
    /\ name \in users
    /\ IF RunsIngestion(FALSE)
       THEN /\ profiles' = Ingested(name, text).profiles
            /\ is_active' = Ingested(name, text).is_active
            /\ outbox' = Ingested(name, text).outbox
       ELSE UNCHANGED <<profiles, is_active, outbox>>
    /\ resp' = [Response("resave", 200, FALSE) EXCEPT !.user = name]
    /\ UNCHANGED <<users, reports, workVars, viewVars, contentVars>>

NextResave ==
    \/ \E u \in Users : CreateUser(u)
    \/ \E by \in Users, name \in Users, text \in ReportTexts, mailOK \in BOOLEAN :
          CreateReport(by, name, text, mailOK)
    \/ \E by \in Users, name \in Users, text \in ReportTexts :
          ResaveReport(by, name, text)

SpecResave == Init /\ [][NextResave]_vars

\* ------------------------------------------------------------------------
\* Users that are saved again, and users that are deleted
\* ------------------------------------------------------------------------
MaxDeletes == 1

\* Post.author of the posts of the model
PostAuthor(pk) == 2

\* on_delete of the foreign keys to User, as Model.delete() collects them
\* Profile.user: CASCADE
ProfilesAfterUserDelete(table, u) == {p \in table : p.user # u}

\* Report.reported_by and Report.reported_user: CASCADE
ReportsAfterUserDelete(table, u) ==
    [r \in ReportRows |->
        IF r.reported_by = u \/ r.reported_user = u THEN 0 ELSE table[r]]

\* Issue.reported_by: CASCADE; Issue.assigned_to: SET_NULL
IssuesAfterUserDelete(table, u) ==
    {[i EXCEPT !.assigned_to = IF @ = u THEN NullUser ELSE @] :
        i \in {j \in table : j.reported_by # u}}

\* Post.author: CASCADE
PostsAfterUserDelete(table, u) == {pk \in table : PostAuthor(pk) # u}

\* Post.content_views (GenericRelation): the views of a deleted post are
\* deleted with it
ViewsAfterPostDelete(table, gone) ==
    {r \in table : ~(r.content_type = "post" /\ r.object_id \in gone)}

\* ContentView.user: SET_NULL, after the views of the user's posts are gone
ViewsAfterUserDelete(table, u) ==
    {[r EXCEPT !.user = IF @ = u THEN NullUser ELSE @] :
        r \in ViewsAfterPostDelete(table, {pk \in posts : PostAuthor(pk) = u})}

\* User.delete() (the delete of djoser's user endpoint, or of the admin)
DeleteUser(u) ==
    /\ u \in users
    /\ started < MaxDeletes
    /\ started' = started + 1
    /\ users' = users \ {u}
    /\ is_active' = [is_active EXCEPT ![u] = FALSE]
    /\ staff' = staff \ {u}
    /\ profiles' = ProfilesAfterUserDelete(profiles, u)
    /\ reports' = ReportsAfterUserDelete(reports, u)
    /\ issues' = IssuesAfterUserDelete(issues, u)
    /\ posts' = PostsAfterUserDelete(posts, u)
    /\ views' = ViewsAfterUserDelete(views, u)
    /\ resp' = [Response("delete_user", 204, FALSE) EXCEPT !.user = u]
    /\ UNCHANGED <<outbox, proc, tx, next_pkid, clock, ratingVars, voteVars,
                   issueVars>>

\* User.save() of a row of the table (update_last_login of a login, an edit
\* of the account): post_save is sent with created = False
ResaveUser(u) ==
    /\ u \in users
    /\ profiles' = create_user_profile(profiles, u, FALSE)
    /\ resp' = [Response("resave_user", 200, FALSE) EXCEPT !.user = u]
    /\ UNCHANGED <<users, is_active, reports, outbox, workVars, viewVars,
                   contentVars>>

NextUsers ==
    \/ \E u \in Users : CreateUser(u)
    \/ \E u \in Users : ResaveUser(u)
    \/ \E u \in Users : DeleteUser(u)
    \/ \E by \in Users, name \in Users, mailOK \in BOOLEAN :
          CreateReport(by, name, FirstText, mailOK)
    \/ \E u \in Users : ProfileEdit(u)
    \/ \E u \in Users : AvatarUpload(u)

SpecUsers == Init /\ [][NextUsers]_vars

\* ------------------------------------------------------------------------
\* Viewed entities and viewers that are deleted
\* ------------------------------------------------------------------------
\* IssueDeleteAPIView.get_object: staff and the reporter
MayDeleteIssue(u, pk) ==
    \E i \in issues : i.pk = pk /\ (u \in staff \/ u = i.reported_by)

\* what Issue.delete() leaves of the ContentView table: Issue declares no
\* relation to ContentView, and ContentView has no foreign key to Issue
ViewsAfterIssueDelete(table, gone) == table

\* IssueDeleteAPIView.delete
DeleteIssue(u, pk) ==
    /\ u \in users /\ is_active[u]
    /\ IF ~EntityExists(Entity("issue", pk))
       THEN /\ resp' = ViewResponse("issue_delete", 404, Entity("issue", pk),
                                    u, NullIp)
            /\ UNCHANGED <<issues, views>>
       ELSE IF ~MayDeleteIssue(u, pk)
       THEN /\ resp' = ViewResponse("issue_delete", 403, Entity("issue", pk),
                                    u, NullIp)
            /\ UNCHANGED <<issues, views>>
       ELSE /\ issues' = {i \in issues : i.pk # pk}
            /\ views' = ViewsAfterIssueDelete(views, {pk})
            /\ resp' = ViewResponse("issue_delete", 204, Entity("issue", pk),
                                    u, NullIp)
    /\ UNCHANGED <<modVars, workVars, next_pkid, clock, posts, staff,
                   ratingVars, voteVars, issueVars>>

\* Post.delete() (the admin)
DeletePost(pk) ==
    /\ pk \in posts
    /\ posts' = posts \ {pk}
    /\ views' = ViewsAfterPostDelete(views, {pk})
    /\ resp' = ViewResponse("post_delete", 204, Entity("post", pk), NullUser,
                            NullIp)
    /\ UNCHANGED <<modVars, workVars, next_pkid, clock, issues, staff,
                   ratingVars, voteVars, issueVars>>

NextViewsLife ==
    \/ \E e \in Entities, u \in Users \cup {NullUser}, ip \in Ips \cup {NullIp} :
          RecordView(e, u, ip)
    \/ \E u \in Users, pk \in {1}, ip \in Ips : IssueDetail(u, pk, ip)
    \/ \E u \in Users, pk \in {1}, ip \in Ips : PostDetail(u, pk, ip)
    \/ \E u \in Users, pk \in {1} : DeleteIssue(u, pk)
    \/ \E pk \in {1} : DeletePost(pk)
    \/ \E u \in Users : DeleteUser(u)

SpecViewsLife == InitViews /\ [][NextViewsLife]_vars


\* ------------------------------------------------------------------------
\* apps.ratings: the rating-creation request

MaxRatings == 2

RECURSIVE SumRatings(_, _)
SumRatings(table, rows) ==
    IF rows = {} THEN 0
    ELSE LET r == CHOOSE x \in rows : TRUE
         IN  table[r] + SumRatings(table, rows \ {r})

\* number of rows of the Rating table
RatingsTotal == SumRatings(ratings, RatingRows)

RatingRow(by, name, value) ==
    [rating_user |-> by, rated_user |-> name, rating |-> value]

RatingResponse(code, target) ==
    [Response("rating", code, FALSE) EXCEPT !.user = target]

RatedUserFound_any(table, name) == TRUE

\* User.objects.get(username=rated_user_username) finds a user
RatedUserFound(table, name) == name \in table

\* allowed_occupations, the service providers
allowed_occupations == Occupations \ {TENANT}

RatingDenied_tenants_only(by, name, rating_occ, rated_occ) ==
    \/ by = name
    \/ rating_occ = TENANT /\ rated_occ = TENANT

\* the PermissionDenied checks of RatingCreateAPIView.create, in its order:
\* self-rating, tenant to tenant, tenant to a non-provider, provider to
\* itself, provider to provider
RatingDenied(by, name, rating_occ, rated_occ) ==
    \/ by = name
    \/ rating_occ = TENANT /\ rated_occ = TENANT
    \/ rating_occ = TENANT /\ rated_occ \notin allowed_occupations
    \/ rating_occ # TENANT /\ by = name
    \/ rating_occ # TENANT /\ rated_occ # TENANT

\* One whole rating-creation request of a payload that passed
\* RatingSerializer's validation: RatingCreateAPIView.create and
\* RatingSerializer.create
CreateRating(by, name, value) ==
    /\ by \in users /\ is_active[by]
    /\ RatingsTotal < MaxRatings
    /\ IF ~RatedUserFound(users, name)
       THEN /\ resp' = RatingResponse(404, name)
            /\ UNCHANGED ratings
       ELSE IF by # name /\ ~(HasProfile(profiles, by) /\ HasProfile(profiles, name))
       THEN /\ resp' = RatingResponse(400, name)
            /\ UNCHANGED ratings
       ELSE IF RatingDenied(by, name, occupation[by], occupation[name])
       THEN /\ resp' = RatingResponse(403, name)
            /\ UNCHANGED ratings
       ELSE /\ ratings' = [ratings EXCEPT ![RatingRow(by, name, value)] = @ + 1]
            /\ resp' = RatingResponse(201, name)
    /\ UNCHANGED <<modVars, workVars, viewVars, issues, posts, staff,
                   occupation, voteVars, issueVars>>

\* ProfileUpdateAPIView with an occupation in the payload: get_object
\* (get_or_create) and serializer.save()
ProfileEditOccupation(u, o) ==
    /\ u \in users /\ is_active[u]
    /\ LET p == IF HasProfile(profiles, u) THEN ProfileOf(profiles, u)
                ELSE ProfileSave(NewProfile(u))
       IN  profiles' = WriteProfile(profiles, ProfileSave(p))
    /\ occupation' = [occupation EXCEPT ![u] = o]
    /\ resp' = Response("edit", 200, FALSE)
    /\ UNCHANGED <<users, is_active, reports, outbox, workVars, viewVars,
                   issues, posts, staff, ratings, voteVars, issueVars>>

\* a username that no user has
NoSuchUser == Cardinality(Users) + 1

Usernames == Users \cup {NoSuchUser}

NextRatings ==
    \/ \E u \in Users : CreateUser(u)
    \/ \E u \in Users, o \in Occupations : ProfileEditOccupation(u, o)
    \/ \E by \in Users, name \in Usernames, value \in RatingChoices :
          CreateRating(by, name, value)
    \/ \E by \in Users, name \in Usernames, mailOK \in BOOLEAN :
          CreateReport(by, name, FirstText, mailOK)

SpecRatings == Init /\ [][NextRatings]_vars

\* ------------------------------------------------------------------------
\* apps.posts: the upvote and downvote requests

MaxVotes == 4

VoteResponse(op, code, u) == [Response(op, code, FALSE) EXCEPT !.user = u]

UpvoteAppliesTo_always(voters, u) == TRUE

\* if user not in instance.upvoted_by.all()
UpvoteAppliesTo(voters, u) == u \notin voters

\* Post.save raises ValueError: the author is neither staff nor a tenant
PostSaveRaises(pk) ==
    ~(PostAuthor(pk) \in staff \/ occupation[PostAuthor(pk)] = TENANT)

\* UpvotePostAPIView.patch and UpvotePostSerializer.update, run alone; an
\* exception of instance.save() rolls the request's transaction back
Upvote(u, pk) ==
    /\ started < MaxVotes
    /\ started' = started + 1
    /\ u \in users /\ is_active[u]
    /\ IF pk \notin posts
       THEN /\ resp' = VoteResponse("upvote", 404, u)
            /\ UNCHANGED voteVars
       ELSE IF UpvoteAppliesTo(upvoted_by[pk], u) /\ PostSaveRaises(pk)
       THEN /\ resp' = VoteResponse("upvote", 500, u)
            /\ UNCHANGED voteVars
       ELSE /\ IF UpvoteAppliesTo(upvoted_by[pk], u)
               THEN /\ upvoted_by' = [upvoted_by EXCEPT ![pk] = @ \cup {u}]
                    /\ upvotes' = [upvotes EXCEPT ![pk] = @ + 1]
               ELSE UNCHANGED <<upvoted_by, upvotes>>
            /\ UNCHANGED <<downvotes, downvoted_by>>
            /\ resp' = VoteResponse("upvote", 200, u)
    /\ UNCHANGED <<modVars, proc, tx, viewVars, issues, posts, staff,
                   ratingVars, issueVars>>

\* DownvotePostAPIView.patch and DownvotePostSerializer.update, run alone:
\* an upvote of the user is taken back, and the downvote is toggled
Downvote(u, pk) ==
    /\ started < MaxVotes
    /\ started' = started + 1
    /\ u \in users /\ is_active[u]
    /\ IF pk \notin posts
       THEN /\ resp' = VoteResponse("downvote", 404, u)
            /\ UNCHANGED voteVars
       ELSE IF PostSaveRaises(pk)
       THEN /\ resp' = VoteResponse("downvote", 500, u)
            /\ UNCHANGED voteVars
       ELSE /\ IF u \in upvoted_by[pk]
               THEN /\ upvoted_by' = [upvoted_by EXCEPT ![pk] = @ \ {u}]
                    /\ upvotes' = [upvotes EXCEPT ![pk] = @ - 1]
               ELSE UNCHANGED <<upvoted_by, upvotes>>
            /\ IF u \notin downvoted_by[pk]
               THEN /\ downvoted_by' = [downvoted_by EXCEPT ![pk] = @ \cup {u}]
                    /\ downvotes' = [downvotes EXCEPT ![pk] = @ + 1]
               ELSE /\ downvoted_by' = [downvoted_by EXCEPT ![pk] = @ \ {u}]
                    /\ downvotes' = [downvotes EXCEPT ![pk] = @ - 1]
            /\ resp' = VoteResponse("downvote", 200, u)
    /\ UNCHANGED <<modVars, proc, tx, viewVars, issues, posts, staff,
                   ratingVars, issueVars>>

NextVotes ==
    \/ \E u \in Users, o \in Occupations : ProfileEditOccupation(u, o)
    \/ \E u \in Users, pk \in PostIds : Upvote(u, pk)
    \/ \E u \in Users, pk \in PostIds : Downvote(u, pk)

SpecVotes == InitViews /\ [][NextVotes]_vars

\* ------------------------------------------------------------------------
\* upvote requests on two workers, each in its request transaction

NoVoteWrites == [upvoted_by |-> {}, upvotes |-> {}]

\* the uncommitted writes of w's upvote request
VoteWrites(w) == IF proc[w].kind = "upvote" THEN tx[w] ELSE NoVoteWrites

Vote(pk, u) == [post |-> pk, user |-> u]

\* another transaction has inserted the same row of the upvoted_by table
\* and has not finished: the insert waits on the unique index
VoteInsertedByOther(w, v) ==
    \E o \in Workers \ {w} : v \in VoteWrites(o).upvoted_by

\* the row lock of post pk is held by a transaction other than w's
PostLockedByOther(w, pk) ==
    \E o \in Workers \ {w} : pk \in VoteWrites(o).upvotes

\* READ COMMITTED: the users in upvoted_by of pk that a statement of w sees
VisibleUpvoters(w, pk) ==
    upvoted_by[pk] \cup {v.user : v \in {x \in VoteWrites(w).upvoted_by :
                                            x.post = pk}}

\* post = get_object_or_404(Post, id=post_id)
UpvoteBegin(w, u, pk) ==
    /\ proc[w].kind = "idle"
    /\ started < MaxVotes
    /\ u \in users /\ is_active[u]
    /\ started' = started + 1
    /\ IF pk \notin posts
       THEN /\ resp' = VoteResponse("upvote", 404, u)
            /\ UNCHANGED <<proc, tx>>
       ELSE /\ proc' = [proc EXCEPT ![w] =
                          [Idle EXCEPT !.kind = "upvote", !.pc = "check",
                                       !.by = u, !.entity = Entity("post", pk)]]
            /\ tx' = [tx EXCEPT ![w] = NoVoteWrites]
            /\ UNCHANGED resp
    /\ UNCHANGED <<modVars, viewVars, contentVars>>

\* if user not in instance.upvoted_by.all(); a user found there ends the
\* request, which commits nothing
UpvoteCheck(w) ==
    /\ proc[w].kind = "upvote" /\ proc[w].pc = "check"
    /\ IF UpvoteAppliesTo(VisibleUpvoters(w, proc[w].entity.object_id),
                          proc[w].by)
       THEN /\ proc' = [proc EXCEPT ![w].pc = "add"]
            /\ UNCHANGED <<tx, resp>>
       ELSE /\ proc' = [proc EXCEPT ![w] = Idle]
            /\ tx' = [tx EXCEPT ![w] = NoWrites]
            /\ resp' = VoteResponse("upvote", 200, proc[w].by)
    /\ UNCHANGED <<modVars, started, viewVars, contentVars>>

\* instance.upvoted_by.add(user): the row is inserted unless the table has
\* it (INSERT ... ON CONFLICT DO NOTHING)
UpvoteAdd(w) ==
    /\ proc[w].kind = "upvote" /\ proc[w].pc = "add"
    /\ LET pk == proc[w].entity.object_id
           v == Vote(pk, proc[w].by)
       IN  /\ ~VoteInsertedByOther(w, v)
           /\ tx' = IF proc[w].by \in upvoted_by[pk] THEN tx
                    ELSE [tx EXCEPT ![w].upvoted_by = @ \cup {v}]
    /\ proc' = [proc EXCEPT ![w].pc = "save"]
    /\ UNCHANGED <<modVars, resp, started, viewVars, contentVars>>

\* instance.upvotes = F("upvotes") + 1; instance.save(): the UPDATE locks
\* the row of the post and adds one to the stored counter; a ValueError of
\* Post.save rolls the transaction back
UpvoteSave(w) ==
    /\ proc[w].kind = "upvote" /\ proc[w].pc = "save"
    /\ LET pk == proc[w].entity.object_id
       IN  IF PostSaveRaises(pk)
           THEN /\ proc' = [proc EXCEPT ![w] = Idle]
                /\ tx' = [tx EXCEPT ![w] = NoWrites]
                /\ resp' = VoteResponse("upvote", 500, proc[w].by)
           ELSE /\ ~PostLockedByOther(w, pk)
                /\ tx' = [tx EXCEPT ![w].upvotes = @ \cup {pk}]
                /\ proc' = [proc EXCEPT ![w].pc = "commit"]
                /\ UNCHANGED resp
    /\ UNCHANGED <<modVars, started, viewVars, contentVars>>

\* the view returns and the request transaction commits
UpvoteCommit(w) ==
    /\ proc[w].kind = "upvote" /\ proc[w].pc = "commit"
    /\ upvoted_by' = [pk \in PostIds |->
                        upvoted_by[pk] \cup
                          {v.user : v \in {x \in tx[w].upvoted_by : x.post = pk}}]
    /\ upvotes' = [pk \in PostIds |->
                     IF pk \in tx[w].upvotes THEN upvotes[pk] + 1
                     ELSE upvotes[pk]]
    /\ proc' = [proc EXCEPT ![w] = Idle]
    /\ tx' = [tx EXCEPT ![w] = NoWrites]
    /\ resp' = VoteResponse("upvote", 200, proc[w].by)
    /\ UNCHANGED <<modVars, started, viewVars, issues, posts, staff, ratingVars,
                   downvotes, downvoted_by, issueVars>>

NextVotesConc ==
    \/ \E w \in Workers, u \in Users, pk \in PostIds : UpvoteBegin(w, u, pk)
    \/ \E w \in Workers : UpvoteCheck(w)
    \/ \E w \in Workers : UpvoteAdd(w)
    \/ \E w \in Workers : UpvoteSave(w)
    \/ \E w \in Workers : UpvoteCommit(w)

SpecVotesConc == InitViews /\ [][NextVotesConc]_vars

\* ------------------------------------------------------------------------
\* apps.issues: the status update of an issue

MaxUpdates == 3

\* the payload has no status
NoStatus == "none"

Dates == 1..MaxClock

\* the resolved_on of a payload: none, or the first date
PayloadDates == {NullDate, NullDate + 1}

IssueOf(pk) == CHOOSE i \in issues : i.pk = pk

\* IssueUpdateAPIView.get_object: staff and the assignee
MayUpdateIssue(u, pk) ==
    \E i \in issues : i.pk = pk /\ (u \in staff \/ u = i.assigned_to)

status_was_resolved_any(new_status, stored) == new_status = RESOLVED

\* status_was_resolved of IssueStatusUpdateSerializer.update
status_was_resolved(new_status, stored) ==
    new_status = RESOLVED /\ stored # RESOLVED

\* Issue.save: the issue exists and its assignee is not the stored assignee
\* and is not None
AssigneeChanged(old_assigned_to, assigned_to) ==
    old_assigned_to # assigned_to /\ assigned_to # NullUser

\* Issue.notify_assigned_user; the exception of a mail that cannot be sent
\* is logged
notify_assigned_user(box, pk, assigned_to, mailOK) ==
    IF mailOK
    THEN [box EXCEPT ![[kind |-> "assignment", to |-> assigned_to,
                        issue |-> pk]] = @ + 1]
    ELSE box

\* send_resolution_email to issue.reported_by; the exception of a mail that
\* cannot be sent is logged
send_resolution_email(box, pk, reported_by, mailOK) ==
    IF mailOK
    THEN [box EXCEPT ![[kind |-> "resolution", to |-> reported_by,
                        issue |-> pk]] = @ + 1]
    ELSE box

\* Issue.save of an issue whose assigned_to is the one loaded by the request
IssueSave(box, pk, mailOK) ==
    LET i == IssueOf(pk)
    IN  IF AssigneeChanged(i.assigned_to, i.assigned_to)
        THEN notify_assigned_user(box, pk, i.assigned_to, mailOK)
        ELSE box

UpdateResponse(code, u, pk) ==
    [Response("issue_update", code, FALSE) EXCEPT
        !.user = u, !.entity = Entity("issue", pk)]

\* One whole update request, run alone: IssueUpdateAPIView.get_object and
\* IssueStatusUpdateSerializer.update.  new_status and date are the status
\* and resolved_on of the payload (NoStatus, NullDate: not in the payload),
\* today is timezone.now().date(), mailOK the outcome of email.send().
IssueUpdate(u, pk, new_status, date, today, mailOK) ==
    /\ started < MaxUpdates
    /\ started' = started + 1
    /\ u \in users /\ is_active[u]
    /\ today >= clock
    /\ clock' = today
    /\ IF ~\E i \in issues : i.pk = pk
       THEN /\ resp' = UpdateResponse(404, u, pk)
            /\ UNCHANGED issueVars
       ELSE IF ~MayUpdateIssue(u, pk)
       THEN /\ resp' = UpdateResponse(403, u, pk)
            /\ UNCHANGED issueVars
       ELSE LET resolves == status_was_resolved(new_status, issue_status[pk])
                updated == IssueSave(issue_outbox, pk, mailOK)
                resaved == IssueSave(updated, pk, mailOK)
            IN  /\ issue_status' =
                      IF new_status = NoStatus THEN issue_status
                      ELSE [issue_status EXCEPT ![pk] = new_status]
                /\ resolved_on' =
                      IF resolves THEN [resolved_on EXCEPT ![pk] = today]
                      ELSE IF date # NullDate
                      THEN [resolved_on EXCEPT ![pk] = date]
                      ELSE resolved_on
                /\ issue_outbox' =
                      IF resolves
                      THEN send_resolution_email(resaved, pk,
                                                 IssueOf(pk).reported_by, mailOK)
                      ELSE updated
                /\ resp' = UpdateResponse(200, u, pk)
    /\ UNCHANGED <<modVars, proc, tx, views, next_pkid, issues, posts, staff,
                   ratingVars, voteVars>>

NextIssues ==
    \E u \in Users, pk \in IssueIds, new_status \in IssueStatus \cup {NoStatus},
       date \in PayloadDates, today \in Dates, mailOK \in BOOLEAN :
          IssueUpdate(u, pk, new_status, date, today, mailOK)

SpecIssues == InitViews /\ [][NextIssues]_vars
\* ------------------------------------------------------------------------
\* Properties
\* ------------------------------------------------------------------------
AllIdle == \A w \in Workers : proc[w].kind = "idle"

ReportCount(table, u) == ProfileOf(table, u).report_count

Reputation(table, u) == ProfileOf(table, u).reputation

\* a Report row against t with text x is committed by this step
ReportCreated(t, x) ==
    \E by \in Users :
        reports'[ReportRow(by, t, x)] = reports[ReportRow(by, t, x)] + 1

\* C1: when two concurrent report-creation requests against a target whose
\* report_count was 0 have both finished, the committed report_count is 2
C1_TwoReportsCountTwo ==
    \A u \in Users :
        (AllIdle /\ ReportsAgainst(reports, u) = 2)
            => ReportCount(profiles, u) = 2

\* C2: a report-creation request whose notification cannot be dispatched is
\* still answered without an error, and the Report row, the increment of
\* report_count and (from 5 on) the deactivation are committed
C2_DispatchFailureCommits ==
    [][(resp'.op = "report" /\ resp'.mail_failed) =>
          LET t == resp'.user
          IN  /\ resp'.status = 201
              /\ ReportsAgainst(reports', t) = ReportsAgainst(reports, t) + 1
              /\ ReportCount(profiles', t) = ReportCount(profiles, t) + 1
              /\ (ReportCount(profiles', t) >= 5 => ~is_active'[t])]_vars

\* C3: every Profile row holds reputation = max(0, 100 - report_count * 20),
\* a value between 0 and 100
C3_ReputationConsistent ==
    \A p \in profiles :
        /\ p.reputation = (IF 100 - p.report_count * 20 > 0
                           THEN 100 - p.report_count * 20 ELSE 0)
        /\ p.reputation \in 0..100

\* a profile written by ingestions, whose reputation is held at 0
C3_Witness ==
    \E p \in profiles : p.report_count = 6 /\ p.reputation = 0

\* C4: a Report created against a target with report_count 0 leaves
\* report_count 1 and reputation 80, dispatches one warning carrying its title
\* and description and nothing else, and leaves the target active
C4_FirstReportWarns ==
    [][\A t \in Users, x \in ReportTexts :
          (/\ ReportCreated(t, x)
           /\ HasProfile(profiles, t)
           /\ ReportCount(profiles, t) = 0)
          => /\ ReportCount(profiles', t) = 1
             /\ Reputation(profiles', t) = 80
             /\ outbox' = [outbox EXCEPT
                             ![[kind |-> "warning", to |-> t, title |-> x.title,
                                description |-> x.description]] = @ + 1]
             /\ is_active'[t] = is_active[t]
             /\ is_active'[t]]_vars

\* the first report against a user has been ingested
C4_Witness ==
    \E t \in users :
        /\ resp = ReportResponse(201, FALSE, t)
        /\ ReportsAgainst(reports, t) = 1
        /\ ReportCount(profiles, t) = 1
        /\ Reputation(profiles, t) = 80
        /\ MailsOf(outbox, "warning", t) = 1
        /\ MailsOf(outbox, "deactivation", t) = 0
        /\ is_active[t]

\* C5: a Report created when the incremented report_count is 5 or more leaves
\* the target inactive with reputation 0 and dispatches one deactivation
\* notice for the report and no warning
C5_FifthReportDeactivates ==
    [][\A t \in Users, x \in ReportTexts :
          (/\ ReportCreated(t, x)
           /\ HasProfile(profiles, t)
           /\ ReportCount(profiles, t) >= 4)
          => /\ ReportCount(profiles', t) = ReportCount(profiles, t) + 1
             /\ Reputation(profiles', t) = 0
             /\ ~is_active'[t]
             /\ outbox' = [outbox EXCEPT
                             ![[kind |-> "deactivation", to |-> t,
                                title |-> x.title,
                                description |-> x.description]] = @ + 1]]_vars

\* the fifth report against a user has been ingested
C5_Witness ==
    \E t \in users :
        /\ resp = ReportResponse(201, FALSE, t)
        /\ ReportsAgainst(reports, t) = 5
        /\ ReportCount(profiles, t) = 5
        /\ Reputation(profiles, t) = 0
        /\ ~is_active[t]
        /\ MailsOf(outbox, "deactivation", t) = 1
        /\ MailsOf(outbox, "warning", t) = 1

\* C6: a Report created when the incremented report_count is 2, 3 or 4 adds
\* exactly 1 to report_count, leaves reputation 60, 40 or 20, dispatches
\* nothing and changes no is_active flag
C6_MiddleReportsSilent ==
    [][\A t \in Users, x \in ReportTexts :
          (/\ ReportCreated(t, x)
           /\ HasProfile(profiles, t)
           /\ ReportCount(profiles', t) \in {2, 3, 4})
          => /\ ReportCount(profiles', t) = ReportCount(profiles, t) + 1
             /\ Reputation(profiles', t) =
                   (CASE ReportCount(profiles', t) = 2 -> 60
                      [] ReportCount(profiles', t) = 3 -> 40
                      [] ReportCount(profiles', t) = 4 -> 20)
             /\ outbox' = outbox
             /\ is_active' = is_active]_vars

\* the third report against a user has been ingested
C6_Witness ==
    \E t \in users :
        /\ resp = ReportResponse(201, FALSE, t)
        /\ ReportsAgainst(reports, t) = 3
        /\ ReportCount(profiles, t) = 3
        /\ Reputation(profiles, t) = 40
        /\ MailsOf(outbox, "warning", t) = 1
        /\ MailsOf(outbox, "deactivation", t) = 0
        /\ is_active[t]

\* C7: the ContentView table never holds two rows with the same
\* (content_type, object_id, user, viewer_ip)
C7_OneRowPerTuple ==
    \A r \in views : \A q \in views : SameTuple(r, q) => r = q

RowsOfTuple(table, e, u, ip) ==
    {r \in table : /\ r.content_type = e.content_type
                   /\ r.object_id = e.object_id
                   /\ r.user = u
                   /\ r.viewer_ip = ip}

\* this step recorded a view (record_view or a detail endpoint went past its
\* checks)
ViewRecorded == resp'.op \in ViewOps /\ resp'.status \notin {403, 404}

\* C8: recording a view of an entity nobody has viewed leaves one row for the
\* tuple and a view count of 1, and recording a view whose tuple has a row
\* leaves that one row and the view count as they are
C8_RepeatViewIdempotent ==
    [][ViewRecorded =>
          LET e == resp'.entity
              u == resp'.user
              ip == resp'.ip
          IN  /\ count_views(views, e) = 0
                   => /\ Cardinality(RowsOfTuple(views', e, u, ip)) = 1
                      /\ count_views(views', e) = 1
              /\ Cardinality(RowsOfTuple(views, e, u, ip)) = 1
                   => /\ Cardinality(RowsOfTuple(views', e, u, ip)) = 1
                      /\ count_views(views', e) = count_views(views, e)]_vars

\* record_view has run twice for one tuple: the only row of the table was
\* created at time 1 and saved again at time 2
C8_Witness ==
    /\ clock = 2
    /\ next_pkid = 2
    /\ resp.op = "record_view"
    /\ resp.status = 200
    /\ \E r \in views :
          /\ views = {r}
          /\ r.last_viewed = 2
          /\ RowsOfTuple(views, resp.entity, resp.user, resp.ip) = {r}
          /\ count_views(views, resp.entity) = 1

\* two viewers are the same identity when they are the same user or, both
\* being anonymous, the same address
SameIdentity(u1, ip1, u2, ip2) ==
    IF u1 # NullUser \/ u2 # NullUser THEN u1 = u2 ELSE ip1 = ip2

\* C9: record_view for a viewer identity that has no row for the entity adds
\* a row, so that the view count grows by one
C9_DistinctViewersCounted ==
    [][(/\ resp'.op = "record_view"
        /\ (resp'.user # NullUser \/ resp'.ip # NullIp)
        /\ \A r \in views :
              (r.content_type = resp'.entity.content_type
                 /\ r.object_id = resp'.entity.object_id)
              => ~SameIdentity(r.user, r.viewer_ip, resp'.user, resp'.ip))
       => count_views(views', resp'.entity)
             = count_views(views, resp'.entity) + 1]_vars

\* C10: record_view returns without raising
C10_RecordViewNeverRaises ==
    resp.op = "record_view" => resp.status = 200

\* C11: a view recorded for a tuple that has a row inserts nothing and leaves
\* the row's last_viewed at the time of this view; a view recorded for an
\* entity without views inserts a row whose last_viewed is the time of the view
C11_RepeatViewRefreshes ==
    [][ViewRecorded =>
          LET e == resp'.entity
              u == resp'.user
              ip == resp'.ip
              had == RowsOfTuple(views, e, u, ip)
          IN  /\ had # {}
                   => /\ Cardinality(views') = Cardinality(views)
                      /\ \A r \in had :
                            [r EXCEPT !.last_viewed = clock'] \in views'
              /\ count_views(views, e) = 0
                   => \E r \in RowsOfTuple(views', e, u, ip) :
                         r.last_viewed = clock']_vars

\* C12: the committed report_count of a profile never decreases: every step
\* leaves it unchanged or increases it
C12_ReportCountMonotone ==
    [][\A u \in Users :
          (HasProfile(profiles, u) /\ HasProfile(profiles', u))
             => ReportCount(profiles', u) >= ReportCount(profiles, u)]_vars

\* C13: banned is absorbing: a user whose committed profile has
\* report_count >= 5 and whose is_active is false is in the same condition
\* after every step
C13_BannedAbsorbing ==
    [][\A u \in Users :
          (/\ HasProfile(profiles, u)
           /\ is_banned(ProfileOf(profiles, u))
           /\ ~is_active[u])
          => /\ HasProfile(profiles', u)
             /\ is_banned(ProfileOf(profiles', u))
             /\ ~is_active'[u]]_vars

\* C14: in every committed state a profile with report_count >= 5 belongs to
\* a user whose is_active is false: the increment that reaches the threshold
\* and the deactivation are committed together
C14_BannedImpliesInactive ==
    \A p \in profiles : is_banned(p) => ~is_active[p.user]

\* a report request has just committed the fifth report against a user
C14_Witness ==
    \E u \in Users :
        /\ resp = ReportResponse(201, FALSE, u)
        /\ ReportCount(profiles, u) = 5
        /\ ReportsAgainst(reports, u) = 5
        /\ ~is_active[u]
        /\ MailsOf(outbox, "deactivation", u) = 1

\* C15: update_all_reputations leaves every profile with reputation
\* max(0, 100 - report_count * 20), dispatches nothing, changes no
\* report_count and no is_active, and a second run changes nothing
C15_SweepRecomputes ==
    [][resp'.op = "sweep" =>
          /\ \A p \in profiles :
                \E q \in profiles' :
                   /\ q.user = p.user
                   /\ q.report_count = p.report_count
                   /\ q.reputation = (IF 100 - p.report_count * 20 > 0
                                      THEN 100 - p.report_count * 20 ELSE 0)
          /\ Cardinality(profiles') = Cardinality(profiles)
          /\ outbox' = outbox
          /\ is_active' = is_active
          /\ SaveAll(profiles', profiles') = profiles']_vars

\* the sweep has run over a table in which it found report_count 3: the
\* stored reputation is 40, whatever it was
C15_Witness ==
    /\ resp.op = "sweep"
    /\ \E p \in profiles : p.report_count = 3 /\ p.reputation = 40
    /\ \E p \in profiles : p.report_count = 6 /\ p.reputation = 0

\* C16: after any sequence of Report creations and Report re-saves every
\* profile's report_count is the number of Reports created against its user,
\* and creating a Report against one user leaves the report_count, reputation
\* and is_active of every other user as they were
C16_IngestedOncePerCreation ==
    [][/\ \A u \in users' :
             ReportCount(profiles', u) = ReportsAgainst(reports', u)
       /\ \A t \in Users, x \in ReportTexts :
             ReportCreated(t, x)
                => \A v \in users \ {t} :
                      /\ ProfileOf(profiles', v) = ProfileOf(profiles, v)
                      /\ is_active'[v] = is_active[v]]_vars

\* a Report against a user that has two has just been saved again
C16_Witness ==
    \E t \in users :
        /\ resp.op = "resave" /\ resp.user = t
        /\ ReportsAgainst(reports, t) = 2
        /\ ReportCount(profiles, t) = 2
        /\ \E v \in users \ {t} : ReportCount(profiles, v) = 1

\* C17: a report-creation request naming the requester is answered with a
\* validation error and changes no table and sends nothing, and no Report
\* row has reported_by = reported_user
C17_SelfReportRejected ==
    [][/\ \A by \in Users, x \in ReportTexts, ok \in BOOLEAN :
             CreateReport(by, by, x, ok)
                => /\ resp' = ReportResponse(400, FALSE, by)
                   /\ UNCHANGED modVars
       /\ \A r \in ReportRows :
             r.reported_by = r.reported_user => reports'[r] = 0]_vars

\* a user who has been reported once has just had a report naming
\* themselves rejected
C17_Witness ==
    \E t \in users :
        /\ resp = ReportResponse(400, FALSE, t)
        /\ is_active[t]
        /\ ReportsAgainst(reports, t) = 1
        /\ ReportCount(profiles, t) = 1
        /\ MailsOf(outbox, "warning", t) = 1

ProfilesOfUser(table, u) == {p \in table : p.user = u}

\* C18: every user has exactly one Profile and no Profile is without its
\* user; a user is created together with a Profile of report_count 0 and
\* reputation 100
C18_OneProfilePerUser ==
    [][/\ \A u \in users' : Cardinality(ProfilesOfUser(profiles', u)) = 1
       /\ \A p \in profiles' : p.user \in users'
       /\ \A u \in users' \ users :
             ProfilesOfUser(profiles', u) =
                {[user |-> u, report_count |-> 0, reputation |-> 100]}]_vars

\* a deactivated user with five reports has been saved again, and both
\* users have their profiles
C18_Witness ==
    \E u \in users :
        /\ ~is_active[u]
        /\ ReportCount(profiles, u) = 5
        /\ resp.op = "resave_user" /\ resp.user = u
        /\ Cardinality(profiles) = 2

\* C19: deleting a user deletes no Report: the rows that referenced the user
\* stay in the table
C19_ReportsSurviveUserDelete ==
    [][\A u \in users \ users' :
          SumOver(reports', ReportRows) = SumOver(reports, ReportRows)]_vars

\* C20: no ContentView row references an entity that is not in its table;
\* deleting a viewer keeps the viewer's rows; only the deletion of the viewed
\* entity removes ContentView rows
C20_ViewsFollowEntity ==
    [][/\ \A r \in views' :
             IF r.content_type = "issue"
             THEN \E i \in issues' : i.pk = r.object_id
             ELSE r.object_id \in posts'
       /\ \A r \in views :
             (IF r.content_type = "issue"
              THEN \E i \in issues' : i.pk = r.object_id
              ELSE r.object_id \in posts')
                => \E q \in views' :
                      /\ q.pkid = r.pkid
                      /\ q.user = (IF r.user \in users' THEN r.user
                                   ELSE NullUser)]_vars


\* C21: a report-creation request and a rating-creation request naming a
\* username that matches no user are answered with an error (400 and 404),
\* and they create no Report and no Rating row, change no profile and send
\* nothing
C21_UnknownUsernameRejected ==
    [][\A by \in Users, name \in Usernames :
          name \notin users =>
             /\ \A ok \in BOOLEAN :
                   (/\ resp'.op = "report" /\ resp'.user = name
                    /\ CreateReport(by, name, FirstText, ok))
                      => /\ resp' = ReportResponse(400, FALSE, name)
                         /\ UNCHANGED <<modVars, ratings>>
             /\ \A value \in RatingChoices :
                   (/\ resp'.op = "rating" /\ resp'.user = name
                    /\ CreateRating(by, name, value))
                      => /\ resp' = RatingResponse(404, name)
                         /\ UNCHANGED <<modVars, ratings>>]_vars

\* a rating naming a username of no user has just been refused, in a
\* database that holds a rating and a profile with a report
C21_Witness ==
    /\ resp = RatingResponse(404, NoSuchUser)
    /\ RatingsTotal >= 1
    /\ \E p \in profiles : p.report_count >= 1

\* C22: for every profile, is_banned is true exactly when report_count >= 5;
\* the profile is in good standing iff report_count = 0, warned iff
\* 1 <= report_count <= 4 and banned iff report_count >= 5, and exactly one
\* of the three holds for every report_count >= 0
C22_BannedIffFiveReports ==
    \A p \in profiles :
        LET good == p.report_count = 0
            warned == 1 <= p.report_count /\ p.report_count <= 4
            banned == is_banned(p)
        IN  /\ p.report_count >= 0
            /\ banned <=> p.report_count >= 5
            /\ Cardinality({s \in {"good", "warned", "banned"} :
                              \/ s = "good" /\ good
                              \/ s = "warned" /\ warned
                              \/ s = "banned" /\ banned}) = 1

\* one profile has five reports and is banned, the other has one report and
\* is not banned
C22_Witness ==
    /\ \E p \in profiles : p.report_count = 5 /\ is_banned(p)
    /\ \E p \in profiles : p.report_count = 1 /\ ~is_banned(p)

\* C23: the sweep and the profile-edit and avatar-upload requests never write
\* back a stale report_count: the step in which one of them writes a profile
\* to the committed table leaves every profile's report_count as it was, so
\* that the count of a profile stays the number of reports ingested
C23_NoStaleWriteBack ==
    [][\A w \in Workers :
          (SweepSave(w) \/ EditCommit(w))
             => \A u \in Users :
                   /\ ReportCount(profiles', u) = ReportCount(profiles, u)
                   /\ (ReportCount(profiles, u) = ReportsAgainst(reports, u)
                         => ReportCount(profiles', u)
                               = ReportsAgainst(reports', u))]_vars

\* C24: under every interleaving of report-creation requests against a
\* user, at most one warning notification is ever dispatched to the user
C24_AtMostOneWarning ==
    \A u \in Users : MailsOf(outbox, "warning", u) <= 1

C26_CountersMatchSets ==
    [][\A pk \in PostIds :
          /\ upvotes'[pk] = Cardinality(upvoted_by'[pk])
          /\ downvotes'[pk] = Cardinality(downvoted_by'[pk])
          /\ upvotes'[pk] >= 0 /\ downvotes'[pk] >= 0
          /\ \A u \in upvoted_by[pk] :
                Upvote(u, pk) => UNCHANGED <<upvoted_by, upvotes>>]_vars

\* the last of the requests was an upvote by the one user in upvoted_by, and
\* no downvote is left on the post
C26_Witness ==
    \E u \in users, pk \in posts :
        /\ resp = VoteResponse("upvote", 200, u)
        /\ upvoted_by[pk] = {u} /\ upvotes[pk] = 1
        /\ downvoted_by[pk] = {} /\ downvotes[pk] = 0
        /\ started = MaxVotes

\* C28: no user is in upvoted_by and in downvoted_by of the same post
C28_NoUserInBothSets ==
    \A pk \in PostIds : upvoted_by[pk] \cap downvoted_by[pk] = {}

\* C27: when two concurrent upvote requests of one user on a post have both
\* finished, upvotes has increased by exactly 1 in total and equals the
\* number of users in upvoted_by
C27_ConcurrentUpvoteCountsOnce ==
    AllIdle => \A pk \in PostIds : upvotes[pk] = Cardinality(upvoted_by[pk])

\* C29: the issue-detail request of an existing issue answers with the issue
\* or records a ContentView only when the requester is the issue's
\* reporter, staff or the issue's assignee; for every other requester it
\* answers PermissionDenied and leaves the ContentView table unchanged
C29_IssueDetailPermission ==
    [][\A u \in Users, pk \in IssueIds, ip \in Ips :
          (/\ resp'.op = "issue_detail" /\ resp'.user = u /\ resp'.ip = ip
           /\ \E i \in issues : i.pk = pk
           /\ IssueDetail(u, pk, ip))
             => LET allowed ==
                      \E i \in issues :
                         /\ i.pk = pk
                         /\ (u = i.reported_by \/ u \in staff \/ u = i.assigned_to)
                IN  /\ (resp'.status = 200 \/ views' # views) => allowed
                    /\ ~allowed
                         => /\ resp'.status = 403
                            /\ views' = views
                            /\ count_views(views', Entity("issue", pk))
                                 = count_views(views, Entity("issue", pk))]_vars

\* a user who is not the reporter, staff or the assignee has just been
\* denied an issue that has a recorded view
C29_Witness ==
    \E u \in users, i \in issues :
        /\ resp.op = "issue_detail" /\ resp.status = 403 /\ resp.user = u
        /\ u # i.reported_by /\ u \notin staff /\ u # i.assigned_to
        /\ count_views(views, Entity("issue", i.pk)) >= 1

====
